---- MODULE Spec2Model ----
(***************************************************************************)
(* PerceptronJS: the three perceptrons of the repository as one state      *)
(* machine.  A behaviour constructs one perceptron (kind) and then makes   *)
(* API calls on it, one at a time (the library is synchronous).  train,    *)
(* classify and setWeights are single steps; trainSet is followed through  *)
(* its while loop, its for loop and its callback.                          *)
(*                                                                         *)
(* Numbers.  Weights, scores, the threshold and the learning rate are      *)
(* integers counting one fixed unit; input features are whole numbers.     *)
(* With the unit read as 1/10, Threshold = 5 is 0.5 and LearningRate = 1   *)
(* is 0.1.  The arithmetic of the model is exact, the code's is IEEE       *)
(* double: the two can disagree on "score > threshold" only when the exact *)
(* score equals the threshold, which the history variable tie records.     *)
(***************************************************************************)
EXTENDS Integers, Sequences, FiniteSets, TLC

\* Constructor arguments of the perceptron under test.
InputDimension == 2
ClassCount == 3
LearningRate == 1
Threshold == 5

\* Bounds of the exploration.
MaxCalls == 2
MaxSetLen == 2
MaxIter == 2

VARIABLES
    kind,          \* which constructor built the object
    inputWeights,  \* this.inputWeights_ (a vector; a matrix for MultiPerceptron)
    inputs,        \* this.inputs_, the input buffer
    pc,            \* "idle", or the position inside trainSet
    call,          \* the arguments of the trainSet call in progress (or the last one)
    numberFailed,  \* trainSet's local (BinaryPerceptron, MultiPerceptron)
    allPassed,     \* trainSet's local (Perceptron)
    iteration,     \* trainSet's local
    i,             \* trainSet's for-loop index (0-based, as in the code)
    result,        \* how the last finished call ended
    calls,         \* number of API calls made so far
    startWeights,  \* history: the weights when the trainSet call began
    passes,        \* history: one entry per finished pass of the trainSet call
    passResults,   \* history: what the train calls of the current pass returned
    log,           \* history: the callback's invocations during the trainSet call
    tie            \* history: some train of the trainSet call saw score = threshold

vars == <<kind, inputWeights, inputs, pc, call, numberFailed, allPassed,
          iteration, i, result, calls, startWeights, passes, passResults, log, tie>>

Kinds == {"BinaryPerceptron", "Perceptron", "MultiPerceptron"}
BinaryKinds == {"BinaryPerceptron", "Perceptron"}
CallbackKinds == {"BinaryPerceptron", "MultiPerceptron"}

ZeroVector == [j \in 1..(InputDimension + 1) |-> 0]

----------------------------------------------------------------------------
(* Construction *)

\* inputs_ after the constructor: zeros, the bias slot set to 1.0
BiasedInputs == [j \in 1..(InputDimension + 1) |-> IF j = 1 THEN 1 ELSE 0]

\* inputWeights_ after the constructor
InitialWeights(k) ==
    IF k = "MultiPerceptron"
    THEN [c \in 1..ClassCount |-> ZeroVector]
    ELSE ZeroVector

----------------------------------------------------------------------------
(* Private helpers (the same code in BinaryPerceptron and Perceptron) *)

RECURSIVE ScoreUpTo(_, _, _)
ScoreUpTo(w, in, n) ==
    IF n = 0 THEN 0 ELSE ScoreUpTo(w, in, n - 1) + w[n] * in[n]

\* score += inputWeights_[i] * inputs_[i] for every i below inputWeights_.length
getScore_(w, in) == ScoreUpTo(w, in, Len(w))

\* inputs_[i] = input[i - 1] for i from 1 on; the bias slot is not written
setInput_(in, input) ==
    [j \in 1..Len(in) |-> IF j = 1 THEN in[1] ELSE input[j - 1]]

\* inputWeights_[i] += learningRate_ * error * inputs_[i]
updateWeights_minus(w, in, error) ==
    [j \in 1..Len(w) |-> w[j] - LearningRate * error * in[j]]
updateWeights_(w, in, error) ==
    [j \in 1..Len(w) |-> w[j] + LearningRate * error * in[j]]

\* the guard of train and classify: input.length != inputs_.length - 1
illegalInputDimension_short(in, input) == Len(input) < Len(in) - 1
illegalInputDimension(in, input) == Len(input) # Len(in) - 1

\* What one train or classify call did: whether it threw, the weights and
\* the buffer it left, the boolean or the class it returned.
Outcome(thrown, w, in, ret, cls, t) ==
    [thrown |-> thrown, weights |-> w, inputs |-> in, ret |-> ret, cls |-> cls,
     tie |-> t]

----------------------------------------------------------------------------
(* BinaryPerceptron and Perceptron: train, classify, setWeights *)

train_returnsTrue(w, in, input, expected) ==
    IF illegalInputDimension(in, input)
    THEN Outcome(TRUE, w, in, FALSE, -1, FALSE)
    ELSE LET buf == setInput_(in, input)
             score == getScore_(w, buf)
             expectedValue == IF expected THEN 1 ELSE 0
             res == IF score > Threshold THEN 1 ELSE 0
         IN  IF expectedValue = res
             THEN Outcome(FALSE, w, buf, TRUE, -1, score = Threshold)
             ELSE Outcome(FALSE, updateWeights_(w, buf, expectedValue - res),
                          buf, TRUE, -1, score = Threshold)

train(w, in, input, expected) ==
    IF illegalInputDimension(in, input)
    THEN Outcome(TRUE, w, in, FALSE, -1, FALSE)
    ELSE LET buf == setInput_(in, input)
             score == getScore_(w, buf)
             expectedValue == IF expected THEN 1 ELSE 0
             res == IF score > Threshold THEN 1 ELSE 0
         IN  IF expectedValue = res
             THEN Outcome(FALSE, w, buf, TRUE, -1, score = Threshold)
             ELSE Outcome(FALSE, updateWeights_(w, buf, expectedValue - res),
                          buf, FALSE, -1, score = Threshold)

classify(w, in, input) ==
    IF illegalInputDimension(in, input)
    THEN Outcome(TRUE, w, in, FALSE, -1, FALSE)
    ELSE LET buf == setInput_(in, input)
             score == getScore_(w, buf)
         IN  Outcome(FALSE, w, buf, score > Threshold, -1, score = Threshold)

\* BinaryPerceptron.setWeights: only the length is compared
BinaryPerceptron_setWeights(w, weights) ==
    IF Len(weights) # Len(w)
    THEN [thrown |-> TRUE, weights |-> w]
    ELSE [thrown |-> FALSE, weights |-> weights]

----------------------------------------------------------------------------
(* MultiPerceptron.  Class c (0-based, as in the code) owns row c + 1. *)

MultiPerceptron_getScore_(W, in, classification) ==
    ScoreUpTo(W[classification + 1], in, Len(W[classification + 1]))

\* inputWeights_[classification][i] -= learningRate_ * inputs_[i]
punishWeights_plus(W, in, classification) ==
    [W EXCEPT ![classification + 1] =
        [j \in 1..Len(@) |-> @[j] + LearningRate * in[j]]]
punishWeights_(W, in, classification) ==
    [W EXCEPT ![classification + 1] =
        [j \in 1..Len(@) |-> @[j] - LearningRate * in[j]]]

\* inputWeights_[classification][i] += learningRate_ * inputs_[i]
encourageWeights_(W, in, classification) ==
    [W EXCEPT ![classification + 1] =
        [j \in 1..Len(@) |-> @[j] + LearningRate * in[j]]]

\* the comparison of classify's scan: if (score > maxScore)
classify_beats_orEqual(score, maxScore) == score >= maxScore
classify_beats(score, maxScore) == score > maxScore

\* the comparison of train's scan: if (score > maxScore)
train_beats(score, maxScore) == score > maxScore

\* classify's loop from class c on, maxScore and maxScoreClassification so far
RECURSIVE classify_scan(_, _, _, _, _)
classify_scan(W, in, c, maxScore, maxScoreClassification) ==
    IF c >= Len(W)
    THEN maxScoreClassification
    ELSE LET score == MultiPerceptron_getScore_(W, in, c)
         IN  IF classify_beats(score, maxScore)
             THEN classify_scan(W, in, c + 1, score, c)
             ELSE classify_scan(W, in, c + 1, maxScore, maxScoreClassification)

\* train's copy of the same loop
RECURSIVE train_scan(_, _, _, _, _)
train_scan(W, in, c, maxScore, maxScoreClassification) ==
    IF c >= Len(W)
    THEN maxScoreClassification
    ELSE LET score == MultiPerceptron_getScore_(W, in, c)
         IN  IF train_beats(score, maxScore)
             THEN train_scan(W, in, c + 1, score, c)
             ELSE train_scan(W, in, c + 1, maxScore, maxScoreClassification)

MultiPerceptron_train(W, in, input, expected) ==
    IF illegalInputDimension(in, input)
    THEN Outcome(TRUE, W, in, FALSE, -1, FALSE)
    ELSE LET buf == setInput_(in, input)
             maxScoreClassification ==
                 train_scan(W, buf, 1, MultiPerceptron_getScore_(W, buf, 0), 0)
         IN  IF expected = maxScoreClassification
             THEN Outcome(FALSE, W, buf, TRUE, -1, FALSE)
             ELSE Outcome(FALSE,
                          punishWeights_(encourageWeights_(W, buf, expected),
                                         buf, maxScoreClassification),
                          buf, FALSE, -1, FALSE)

MultiPerceptron_classify(W, in, input) ==
    IF illegalInputDimension(in, input)
    THEN Outcome(TRUE, W, in, FALSE, -1, FALSE)
    ELSE LET buf == setInput_(in, input)
         IN  Outcome(FALSE, W, buf, FALSE,
                     classify_scan(W, buf, 1, MultiPerceptron_getScore_(W, buf, 0), 0),
                     FALSE)

\* MultiPerceptron.setWeights: the row count and the length of row 0 are compared
MultiPerceptron_setWeights(W, weights) ==
    IF Len(weights) # Len(W) \/ Len(weights[1]) # Len(W[1])
    THEN [thrown |-> TRUE, weights |-> W]
    ELSE [thrown |-> FALSE, weights |-> weights]

----------------------------------------------------------------------------
(* What the caller passes *)

\* feature vectors of the right length, and of a length one short and one long
GoodInputs == [1..InputDimension -> {0, 1}]
BadInputs == [1..(InputDimension - 1) -> {1}] \cup [1..(InputDimension + 1) -> {1}]
Inputs == GoodInputs \cup BadInputs

\* a boolean for the binary perceptrons, a class index for MultiPerceptron
Labels(k) == IF k = "MultiPerceptron" THEN 0..(ClassCount - 1) ELSE BOOLEAN

TrainingSet(inputSet, expectedSet) ==
    [inputSet |-> inputSet, expectedSet |-> expectedSet]

Corners == <<(<<0, 0>>), (<<0, 1>>), (<<1, 0>>), (<<1, 1>>)>>
ANDSet == TrainingSet(Corners, <<FALSE, FALSE, FALSE, TRUE>>)
XORSet == TrainingSet(Corners, <<FALSE, TRUE, TRUE, FALSE>>)
\* the corners labelled with three classes: separable by the multi-class rule
CornerClasses == TrainingSet(Corners, <<0, 1, 2, 2>>)

\* labelled examples the small training sets are made of
Examples(k) ==
    IF k = "MultiPerceptron"
    THEN {<<(<<0, 1>>), 1>>, <<(<<1, 1>>), 2>>}
    ELSE {<<(<<0, 1>>), TRUE>>, <<(<<1, 1>>), FALSE>>, <<(<<1, 1>>), TRUE>>}

\* every training set of up to MaxSetLen of these examples, in every order
SmallSets(k) ==
    UNION {{TrainingSet([j \in 1..n |-> es[j][1]], [j \in 1..n |-> es[j][2]]) :
                es \in [1..n -> Examples(k)]} : n \in 0..MaxSetLen}

\* sets that make trainSet throw: unequal lengths, an input of a wrong length
MismatchedSets(k) ==
    {TrainingSet(<<(<<0, 1>>)>>, <<>>),
     TrainingSet(<<>>, <<(CHOOSE l \in Labels(k) : TRUE)>>)}
IllegalSets(k) ==
    {TrainingSet(<<(<<1, 1>>), b>>, [n \in 1..2 |-> CHOOSE l \in Labels(k) : TRUE]) :
        b \in BadInputs}

NamedSets(k) ==
    IF k = "MultiPerceptron" THEN {CornerClasses} ELSE {ANDSet, XORSet}

\* The trainSet calls made, as (set, maxIterations): every set with a budget
\* up to MaxIter, and on a new perceptron the named sets with a budget of 100.
TrainSetCalls(k, made) ==
    ((SmallSets(k) \cup MismatchedSets(k) \cup IllegalSets(k) \cup NamedSets(k))
        \X (0..MaxIter))
    \cup (IF made = 0 THEN NamedSets(k) \X {100} ELSE {})

\* replacement weights handed to BinaryPerceptron.setWeights
VectorChoices ==
    {<<0, 3, 3>>, <<-2, 0, 4>>, <<3, 3>>, <<3, 3, 3, 3>>}

\* Replacement matrices handed to MultiPerceptron.setWeights: one row short,
\* right and one row long; rows of the right length or too short, and for
\* row 0 also too long.  (A too long row below row 0 would be accepted and
\* then scored against buffer slots that do not exist.)
GoodMatrices ==
    {[c \in 1..ClassCount |-> <<0, ClassCount - c, 1>>]}
MatrixChoices ==
    GoodMatrices
    \cup {SubSeq(m, 1, ClassCount - 1) : m \in GoodMatrices}
    \cup {Append(m, <<0, 0, 0>>) : m \in GoodMatrices}
    \cup {[m EXCEPT ![r] = <<1, 1>>] : m \in GoodMatrices, r \in 1..ClassCount}
    \cup {[m EXCEPT ![1] = <<1, 1, 1, 1>>] : m \in GoodMatrices}

WeightChoices(k) ==
    IF k = "BinaryPerceptron" THEN VectorChoices
    ELSE IF k = "MultiPerceptron" THEN MatrixChoices
    ELSE {}

----------------------------------------------------------------------------
(* State *)

IllegalInput == "Illegal input dimension"
SetMismatch == "Input and expectation mismatch"
WeightDimension == "Cannot change weight dimension"
NotAFunction == "TypeError: callback is not a function"

\* how a call ended: op, whether it threw and what, the boolean or class it
\* returned, and the argument it was given (input vector or weights)
Result(op, thrown, error, bool, cls, arg) ==
    [op |-> op, thrown |-> thrown, error |-> error, bool |-> bool, cls |-> cls,
     arg |-> arg]

NoCall == [inputSet |-> <<>>, expectedSet |-> <<>>, maxIterations |-> 0,
           callback |-> FALSE]

Init ==
    /\ kind \in Kinds
    /\ inputWeights = InitialWeights(kind)
    /\ inputs = BiasedInputs
    /\ pc = "idle"
    /\ call = NoCall
    /\ numberFailed = -1
    /\ allPassed = FALSE
    /\ iteration = 0
    /\ i = 0
    /\ result = Result("new", FALSE, "", FALSE, -1, <<>>)
    /\ calls = 0
    /\ startWeights = inputWeights
    /\ passes = <<>>
    /\ passResults = <<>>
    /\ log = <<>>
    /\ tie = FALSE

trainSetLocals == <<numberFailed, allPassed, iteration, i>>
history == <<startWeights, passes, passResults, log, tie>>

CanCall == pc = "idle" /\ calls < MaxCalls

----------------------------------------------------------------------------
(* train, classify, setWeights called directly *)

Train(input, expected) ==
    /\ CanCall
    /\ LET o == IF kind = "MultiPerceptron"
                THEN MultiPerceptron_train(inputWeights, inputs, input, expected)
                ELSE train(inputWeights, inputs, input, expected)
       IN  /\ inputWeights' = o.weights
           /\ inputs' = o.inputs
           /\ result' = Result("train", o.thrown,
                               IF o.thrown THEN IllegalInput ELSE "",
                               o.ret, IF kind = "MultiPerceptron" THEN expected ELSE -1,
                               input)
    /\ calls' = calls + 1
    /\ UNCHANGED <<kind, pc, call, trainSetLocals, history>>

Classify(input) ==
    /\ CanCall
    /\ LET o == IF kind = "MultiPerceptron"
                THEN MultiPerceptron_classify(inputWeights, inputs, input)
                ELSE classify(inputWeights, inputs, input)
       IN  /\ inputWeights' = o.weights
           /\ inputs' = o.inputs
           /\ result' = Result("classify", o.thrown,
                               IF o.thrown THEN IllegalInput ELSE "",
                               o.ret, o.cls, input)
    /\ calls' = calls + 1
    /\ UNCHANGED <<kind, pc, call, trainSetLocals, history>>

\* Perceptron has no setWeights
SetWeights(weights) ==
    /\ CanCall
    /\ LET o == IF kind = "MultiPerceptron"
                THEN MultiPerceptron_setWeights(inputWeights, weights)
                ELSE BinaryPerceptron_setWeights(inputWeights, weights)
       IN  /\ inputWeights' = o.weights
           /\ result' = Result("setWeights", o.thrown,
                               IF o.thrown THEN WeightDimension ELSE "",
                               FALSE, -1, weights)
    /\ calls' = calls + 1
    /\ UNCHANGED <<kind, inputs, pc, call, trainSetLocals, history>>

----------------------------------------------------------------------------
(* trainSet of BinaryPerceptron and of MultiPerceptron (the same code) *)

\* while (numberFailed != 0 && iteration < maxIterations)
trainSet_continue_noStop(failed, iter, maxIterations) == iter < maxIterations
trainSet_continue(failed, iter, maxIterations) ==
    failed # 0 /\ iter < maxIterations

\* return iteration != maxIterations
trainSet_return_converged(failed, iter, maxIterations) == failed = 0
trainSet_return(failed, iter, maxIterations) == iter # maxIterations

\* callback(numberFailed, inputSet.length, iteration)
callback_arguments(failed, inputSet, iter) ==
    [numberFailed |-> failed, size |-> Len(inputSet), iteration |-> iter]

Running == Result("trainSet", FALSE, "", FALSE, -1, <<>>)
Thrown(error) == Result("trainSet", TRUE, error, FALSE, -1, <<>>)
Returned(value) == Result("trainSet", FALSE, "", value, -1, <<>>)

\* the call: the length check, then the locals
TrainSet(set, maxIterations, callback) ==
    /\ CanCall
    /\ kind = "Perceptron" => ~callback
    /\ calls' = calls + 1
    /\ call' = [inputSet |-> set.inputSet, expectedSet |-> set.expectedSet,
                maxIterations |-> maxIterations, callback |-> callback]
    /\ startWeights' = inputWeights
    /\ passes' = <<>>
    /\ passResults' = <<>>
    /\ log' = <<>>
    /\ tie' = FALSE
    /\ i' = 0
    /\ IF Len(set.inputSet) # Len(set.expectedSet)
       THEN /\ pc' = "done"
            /\ result' = Thrown(SetMismatch)
            /\ UNCHANGED <<numberFailed, allPassed, iteration>>
       ELSE /\ pc' = "while"
            /\ result' = Running
            /\ iteration' = 0
            /\ IF kind = "Perceptron"
               THEN allPassed' = FALSE /\ UNCHANGED numberFailed
               ELSE numberFailed' = -1 /\ UNCHANGED allPassed
    /\ UNCHANGED <<kind, inputWeights, inputs>>

\* the loop test: enter a pass, or return
TrainSetWhile ==
    /\ pc = "while"
    /\ kind \in CallbackKinds
    /\ IF trainSet_continue(numberFailed, iteration, call.maxIterations)
       THEN /\ numberFailed' = 0
            /\ i' = 0
            /\ passResults' = <<>>
            /\ pc' = "for"
            /\ UNCHANGED result
       ELSE /\ pc' = "done"
            /\ result' = Returned(trainSet_return(numberFailed, iteration,
                                                  call.maxIterations))
            /\ UNCHANGED <<numberFailed, i, passResults>>
    /\ UNCHANGED <<kind, inputWeights, inputs, call, allPassed, iteration, calls,
                   startWeights, passes, log, tie>>

\* one turn of the for loop: train on example i, or leave the loop
TrainSetFor ==
    /\ pc = "for"
    /\ kind \in CallbackKinds
    /\ IF i < Len(call.inputSet)
       THEN /\ LET o == IF kind = "MultiPerceptron"
                     THEN MultiPerceptron_train(inputWeights, inputs,
                              call.inputSet[i + 1], call.expectedSet[i + 1])
                     ELSE train(inputWeights, inputs,
                              call.inputSet[i + 1], call.expectedSet[i + 1])
               IN  IF o.thrown
                   THEN /\ pc' = "done"
                        /\ result' = Thrown(IllegalInput)
                        /\ UNCHANGED <<inputWeights, inputs, numberFailed, i,
                                       passResults, tie>>
                   ELSE /\ inputWeights' = o.weights
                        /\ inputs' = o.inputs
                        /\ numberFailed' = IF o.ret THEN numberFailed
                                           ELSE numberFailed + 1
                        /\ i' = i + 1
                        /\ passResults' = Append(passResults, o.ret)
                        /\ tie' = (tie \/ o.tie)
                        /\ UNCHANGED <<pc, result>>
            /\ UNCHANGED passes
       ELSE /\ pc' = "callback"
            /\ passes' = Append(passes, [weights |-> inputWeights,
                                         results |-> passResults])
            /\ UNCHANGED <<inputWeights, inputs, numberFailed, i, passResults,
                           tie, result>>
    /\ UNCHANGED <<kind, call, allPassed, iteration, calls, startWeights, log>>

\* callback(...) and iteration++
TrainSetCallback ==
    /\ pc = "callback"
    /\ kind \in CallbackKinds
    /\ IF call.callback
       THEN /\ log' = Append(log, [arguments |-> callback_arguments(numberFailed,
                                                     call.inputSet, iteration),
                                   position |-> i,
                                   results |-> passResults])
            /\ iteration' = iteration + 1
            /\ pc' = "while"
            /\ UNCHANGED result
       ELSE /\ pc' = "done"
            /\ result' = Thrown(NotAFunction)
            /\ UNCHANGED <<log, iteration>>
    /\ UNCHANGED <<kind, inputWeights, inputs, call, numberFailed, allPassed, i,
                   calls, startWeights, passes, passResults, tie>>

----------------------------------------------------------------------------
(* trainSet of Perceptron *)

\* while (!allPassed && iteration < maxIterations)
Perceptron_trainSet_continue(passed, iter, maxIterations) ==
    ~passed /\ iter < maxIterations

\* return iteration != maxIterations
Perceptron_trainSet_return(passed, iter, maxIterations) == iter # maxIterations

\* allPassed = allPassed && this.train(inputSet[i], expectedSet[i]):
\* && does not evaluate its right side when its left side is false
Perceptron_trainSet_and(passed, w, in, input, expected) ==
    IF passed
    THEN LET o == train(w, in, input, expected)
         IN  [called |-> TRUE, outcome |-> o, allPassed |-> o.ret]
    ELSE [called |-> FALSE, outcome |-> Outcome(FALSE, w, in, FALSE, -1, FALSE),
          allPassed |-> FALSE]

PerceptronTrainSetWhile ==
    /\ pc = "while"
    /\ kind = "Perceptron"
    /\ IF Perceptron_trainSet_continue(allPassed, iteration, call.maxIterations)
       THEN /\ allPassed' = TRUE
            /\ i' = 0
            /\ passResults' = <<>>
            /\ pc' = "for"
            /\ UNCHANGED result
       ELSE /\ pc' = "done"
            /\ result' = Returned(Perceptron_trainSet_return(allPassed, iteration,
                                                             call.maxIterations))
            /\ UNCHANGED <<allPassed, i, passResults>>
    /\ UNCHANGED <<kind, inputWeights, inputs, call, numberFailed, iteration, calls,
                   startWeights, passes, log, tie>>

PerceptronTrainSetFor ==
    /\ pc = "for"
    /\ kind = "Perceptron"
    /\ IF i < Len(call.inputSet)
       THEN /\ LET s == Perceptron_trainSet_and(allPassed, inputWeights, inputs,
                         call.inputSet[i + 1], call.expectedSet[i + 1])
               IN  IF s.outcome.thrown
                   THEN /\ pc' = "done"
                        /\ result' = Thrown(IllegalInput)
                        /\ UNCHANGED <<inputWeights, inputs, allPassed, i,
                                       passResults, tie>>
                   ELSE /\ inputWeights' = s.outcome.weights
                        /\ inputs' = s.outcome.inputs
                        /\ allPassed' = s.allPassed
                        /\ i' = i + 1
                        /\ passResults' = IF s.called
                                          THEN Append(passResults, s.outcome.ret)
                                          ELSE passResults
                        /\ tie' = (tie \/ s.outcome.tie)
                        /\ UNCHANGED <<pc, result>>
            /\ UNCHANGED <<passes, iteration>>
       ELSE /\ iteration' = iteration + 1
            /\ pc' = "while"
            /\ passes' = Append(passes, [weights |-> inputWeights,
                                         results |-> passResults])
            /\ UNCHANGED <<inputWeights, inputs, allPassed, i, passResults,
                           tie, result>>
    /\ UNCHANGED <<kind, call, numberFailed, calls, startWeights, log>>

----------------------------------------------------------------------------

\* trainSet has returned or thrown: control is back in the caller, and the
\* call's arguments and locals (and the history kept about it) are gone
TrainSetExit ==
    /\ pc = "done"
    /\ pc' = "idle"
    /\ call' = NoCall
    /\ numberFailed' = -1
    /\ allPassed' = FALSE
    /\ iteration' = 0
    /\ i' = 0
    /\ startWeights' = inputWeights
    /\ passes' = <<>>
    /\ passResults' = <<>>
    /\ log' = <<>>
    /\ tie' = FALSE
    /\ UNCHANGED <<kind, inputWeights, inputs, result, calls>>

Next ==
    \/ CanCall /\ \E input \in Inputs, expected \in Labels(kind) :
                      Train(input, expected)
    \/ CanCall /\ \E input \in Inputs : Classify(input)
    \/ CanCall /\ \E weights \in WeightChoices(kind) : SetWeights(weights)
    \/ CanCall /\ \E c \in TrainSetCalls(kind, calls), callback \in BOOLEAN :
                      TrainSet(c[1], c[2], callback)
    \/ TrainSetExit
    \/ TrainSetWhile
    \/ TrainSetFor
    \/ TrainSetCallback
    \/ PerceptronTrainSetWhile
    \/ PerceptronTrainSetFor

Spec == Init /\ [][Next]_vars

----------------------------------------------------------------------------
(* trainSet of BinaryPerceptron and MultiPerceptron as a function: the call  *)
(* run to its end on inputs of the right length, with a callback that does   *)
(* nothing.                                                                  *)

\* the for loop from example n on, failed failures counted so far
RECURSIVE trainSet_for(_, _, _, _, _, _, _)
trainSet_for(k, w, in, inputSet, expectedSet, n, failed) ==
    IF n >= Len(inputSet)
    THEN [weights |-> w, inputs |-> in, numberFailed |-> failed]
    ELSE LET o == IF k = "MultiPerceptron"
                  THEN MultiPerceptron_train(w, in, inputSet[n + 1], expectedSet[n + 1])
                  ELSE train(w, in, inputSet[n + 1], expectedSet[n + 1])
         IN  trainSet_for(k, o.weights, o.inputs, inputSet, expectedSet, n + 1,
                          IF o.ret THEN failed ELSE failed + 1)

\* the while loop; done holds the weights after each pass made so far
RECURSIVE trainSet_while(_, _, _, _, _, _, _, _, _)
trainSet_while(k, w, in, inputSet, expectedSet, maxIterations, failed, iter, done) ==
    IF trainSet_continue(failed, iter, maxIterations)
    THEN LET p == trainSet_for(k, w, in, inputSet, expectedSet, 0, 0)
         IN  trainSet_while(k, p.weights, p.inputs, inputSet, expectedSet,
                            maxIterations, p.numberFailed, iter + 1,
                            Append(done, p.weights))
    ELSE [passes |-> done, weights |-> w,
          ret |-> trainSet_return(failed, iter, maxIterations)]

trainSet(k, w, in, inputSet, expectedSet, maxIterations) ==
    trainSet_while(k, w, in, inputSet, expectedSet, maxIterations, -1, 0, <<>>)

----------------------------------------------------------------------------
(* Vocabulary of the properties *)

InTrainSet == pc \in {"while", "for", "callback", "done"}
TrainSetEnded == pc = "done" /\ result.op = "trainSet"
TrainSetReturned == TrainSetEnded /\ ~result.thrown

\* the arguments are ones trainSet accepts and every input has the right length
LegalCall ==
    /\ Len(call.inputSet) = Len(call.expectedSet)
    /\ \A n \in 1..Len(call.inputSet) : Len(call.inputSet[n]) = InputDimension

\* the trainSet call in progress is the first call made on the new perceptron
OnNewPerceptron == InTrainSet /\ calls = 1 /\ startWeights = InitialWeights(kind)

TrainsOn(set) ==
    call.inputSet = set.inputSet /\ call.expectedSet = set.expectedSet

\* a callback was passed, or the perceptron is the one whose trainSet takes none
CallbackGiven == call.callback \/ kind = "Perceptron"

NoFailure(pass) == \A n \in 1..Len(pass.results) : pass.results[n]
Failures(results) == Cardinality({n \in 1..Len(results) : ~results[n]})

\* one direct call has just been made
Called(op) == calls' = calls + 1 /\ result'.op = op

Scores(W, in) == [c \in 0..(Len(W) - 1) |-> MultiPerceptron_getScore_(W, in, c)]

\* the smallest class index whose score is the maximum score
FirstMaximum(W, in) ==
    CHOOSE c \in 0..(Len(W) - 1) :
        \A d \in 0..(Len(W) - 1) :
            /\ Scores(W, in)[d] <= Scores(W, in)[c]
            /\ d < c => Scores(W, in)[d] < Scores(W, in)[c]

WrongShape(m) ==
    \/ Len(m) # ClassCount
    \/ \E r \in 1..Len(m) : Len(m[r]) # InputDimension + 1

\* the stepwise trainSet and the function agree (BinaryPerceptron, MultiPerceptron)
StepwiseAgreesWithTrainSet ==
    (kind \in CallbackKinds /\ call.callback /\ LegalCall /\ TrainSetReturned) =>
        LET f == trainSet(kind, startWeights, BiasedInputs, call.inputSet,
                          call.expectedSet, call.maxIterations)
        IN  /\ result.bool = f.ret
            /\ inputWeights = f.weights
            /\ [n \in 1..Len(passes) |-> passes[n].weights] = f.passes

----------------------------------------------------------------------------
(* C1 *)

\* C1: whenever trainSet returns, on any of the three perceptrons, it returns
\* true exactly when fewer than maxIterations passes were executed, which is
\* exactly when some pass before the maxIterations-th had no failed train
\* call; after maxIterations passes it returns false.
C1_ReturnsTrueIffStoppedEarly ==
    TrainSetReturned =>
        /\ result.bool = (Len(passes) < call.maxIterations)
        /\ result.bool = (\E n \in 1..Len(passes) :
                              n < call.maxIterations /\ NoFailure(passes[n]))
        /\ Len(passes) = call.maxIterations => ~result.bool

\* the last pass the budget allows had no failure, and trainSet returned false
C1_Witness ==
    /\ TrainSetReturned
    /\ call.maxIterations > 1
    /\ Len(passes) = call.maxIterations
    /\ NoFailure(passes[Len(passes)])
    /\ ~result.bool

----------------------------------------------------------------------------
(* C2 *)

\* C2: on a new BinaryPerceptron or Perceptron (inputDimension 2, threshold
\* 0.5, learningRate 0.1), trainSet on the AND set with maxIterations 100
\* ends by returning true, and classify then gives each of the four inputs
\* its expected label; no score of the run or of these classify calls equals
\* the threshold, so rounding cannot turn a comparison.
C2_LearnsAND ==
    (kind \in BinaryKinds /\ OnNewPerceptron /\ TrainsOn(ANDSet)
        /\ call.maxIterations = 100 /\ TrainSetEnded /\ CallbackGiven) =>
        /\ ~result.thrown
        /\ result.bool
        /\ ~tie
        /\ \A n \in 1..Len(ANDSet.inputSet) :
               LET o == classify(inputWeights, inputs, ANDSet.inputSet[n])
               IN  ~o.thrown /\ o.ret = ANDSet.expectedSet[n] /\ ~o.tie

\* BinaryPerceptron has returned true from the AND run after more than one pass
C2_Witness ==
    /\ kind = "BinaryPerceptron"
    /\ OnNewPerceptron
    /\ TrainsOn(ANDSet)
    /\ call.maxIterations = 100
    /\ TrainSetReturned
    /\ result.bool
    /\ Len(passes) > 1
    /\ inputWeights # ZeroVector

\* the same for Perceptron
C2_WitnessPerceptron ==
    /\ kind = "Perceptron"
    /\ OnNewPerceptron
    /\ TrainsOn(ANDSet)
    /\ call.maxIterations = 100
    /\ TrainSetReturned
    /\ result.bool
    /\ Len(passes) > 1

----------------------------------------------------------------------------
(* C3 *)

\* C3: on a new BinaryPerceptron or Perceptron, no pass of trainSet over the
\* XOR set is free of failures, and trainSet ends by returning false,
\* whatever maxIterations is.
C3_NeverLearnsXOR ==
    (kind \in BinaryKinds /\ OnNewPerceptron /\ TrainsOn(XORSet)) =>
        /\ \A n \in 1..Len(passes) : ~NoFailure(passes[n])
        /\ TrainSetReturned => ~result.bool
        /\ (TrainSetEnded /\ CallbackGiven) => ~result.thrown

\* a hundred passes over the XOR set were made, and trainSet returned false
C3_Witness ==
    /\ kind \in BinaryKinds
    /\ OnNewPerceptron
    /\ TrainsOn(XORSet)
    /\ TrainSetReturned
    /\ Len(passes) = 100
    /\ ~result.bool

----------------------------------------------------------------------------
(* C10 *)

\* C10: in a trainSet call of BinaryPerceptron or MultiPerceptron that was
\* given a callback, the callback has been invoked once for each finished
\* pass and only when the pass was over, the n-th time with the number of
\* train calls of that pass that returned false, the length of the input set
\* and n - 1; at most maxIterations passes are made and none after a pass
\* without failures, so only the last invocation can report 0.
C10_CallbackOncePerPass ==
    (kind \in CallbackKinds /\ InTrainSet /\ call.callback) =>
        /\ Len(log) = (IF pc = "callback" THEN Len(passes) - 1 ELSE Len(passes))
        /\ \A n \in 1..Len(log) :
               /\ log[n].arguments =
                      [numberFailed |-> Failures(passes[n].results),
                       size |-> Len(call.inputSet),
                       iteration |-> n - 1]
               /\ log[n].results = passes[n].results
               /\ Len(log[n].results) = Len(call.inputSet)
               /\ log[n].position = Len(call.inputSet)
               /\ n < Len(log) => log[n].arguments.numberFailed # 0
        /\ Len(passes) <= call.maxIterations
        /\ \A n \in 1..(Len(passes) - 1) : ~NoFailure(passes[n])
        /\ (pc = "for" /\ Len(passes) > 0) => ~NoFailure(passes[Len(passes)])
        /\ TrainSetReturned =>
               \/ Len(passes) = call.maxIterations
               \/ NoFailure(passes[Len(passes)])

\* the callback was invoked at least twice, the last time with 0 failures
C10_Witness ==
    /\ kind \in CallbackKinds
    /\ call.callback
    /\ TrainSetReturned
    /\ Len(log) > 1
    /\ Len(call.inputSet) > 1
    /\ log[Len(log)].arguments.numberFailed = 0
    /\ log[1].arguments.numberFailed > 0

----------------------------------------------------------------------------
(* C4 *)

\* C4: Perceptron.trainSet trains on every example of every pass it makes,
\* and so goes through the weights BinaryPerceptron.trainSet goes through
\* from the same weights with the same arguments, pass by pass, and returns
\* what it returns.
C4_PerceptronTrainsLikeBinary ==
    (kind = "Perceptron" /\ InTrainSet /\ LegalCall) =>
        LET f == trainSet("BinaryPerceptron", startWeights, BiasedInputs,
                          call.inputSet, call.expectedSet, call.maxIterations)
        IN  /\ \A n \in 1..Len(passes) :
                   /\ Len(passes[n].results) = Len(call.inputSet)
                   /\ n <= Len(f.passes)
                   /\ passes[n].weights = f.passes[n]
            /\ TrainSetReturned =>
                   /\ result.bool = f.ret
                   /\ Len(passes) = Len(f.passes)

----------------------------------------------------------------------------
(* C5 *)

\* C5: a trainSet call of BinaryPerceptron or MultiPerceptron made without a
\* callback, with arguments a call with a callback accepts, raises no error,
\* makes the passes that call makes, ends with its weights and returns what
\* it returns.
C5_CallbackOptional ==
    (kind \in CallbackKinds /\ TrainSetEnded /\ ~call.callback /\ LegalCall) =>
        LET f == trainSet(kind, startWeights, BiasedInputs, call.inputSet,
                          call.expectedSet, call.maxIterations)
        IN  /\ ~result.thrown
            /\ result.bool = f.ret
            /\ inputWeights = f.weights
            /\ [n \in 1..Len(passes) |-> passes[n].weights] = f.passes

----------------------------------------------------------------------------
(* C6 *)

\* C6: MultiPerceptron.setWeights, given a matrix with a number of rows other
\* than classCount or with any row of a length other than inputDimension + 1,
\* throws and leaves the weights as they were.
C6_SetWeightsChecksEveryRow ==
    [][(kind = "MultiPerceptron" /\ Called("setWeights") /\ WrongShape(result'.arg)) =>
           /\ result'.thrown
           /\ result'.error = WeightDimension
           /\ inputWeights' = inputWeights]_vars

----------------------------------------------------------------------------
(* C7 *)

\* the train call the for loop of trainSet is about to make, if it makes one
NextExample == call.inputSet[i + 1]
TrainSetCallsTrain ==
    /\ pc = "for"
    /\ i < Len(call.inputSet)
    /\ kind = "Perceptron" => allPassed

\* C7: on every perceptron and in every state, train and classify given an
\* input whose length is not inputDimension throw 'Illegal input dimension'
\* and leave every weight and every slot of the input buffer as it was; so
\* does a train call made by trainSet, whose error ends trainSet.
C7_IllegalInputChangesNothing ==
    [][/\ (Called("train") \/ Called("classify")) =>
              (Len(result'.arg) # InputDimension =>
                  /\ result'.thrown
                  /\ result'.error = IllegalInput
                  /\ UNCHANGED <<inputWeights, inputs>>)
       /\ (TrainSetCallsTrain /\ Len(NextExample) # InputDimension) =>
              /\ pc' = "done"
              /\ result'.thrown
              /\ result'.error = IllegalInput
              /\ UNCHANGED <<inputWeights, inputs>>]_vars

\* train has thrown on a perceptron whose weights and buffer are no longer
\* those of the constructor
C7_Witness ==
    /\ pc = "idle"
    /\ result.op = "train"
    /\ result.thrown
    /\ Len(result.arg) # InputDimension
    /\ inputWeights # InitialWeights(kind)
    /\ inputs # BiasedInputs

----------------------------------------------------------------------------
(* C8 *)

\* What C8 says of a step in which MultiPerceptron.train was given an input
\* of the right length and the class expected: with p the first class of
\* maximal score for the new buffer, and p # expected, row expected gains and
\* row p loses learningRate * buffer[j] in every component j, the other rows
\* keep their values, and train returns false; with p = expected the weights
\* are unchanged and train returns true.
TrainUpdatesTwoRows(W, expected, returned) ==
    LET p == FirstMaximum(W, inputs')
        delta(c, j) == IF c = expected THEN LearningRate * inputs'[j]
                       ELSE IF c = p THEN 0 - LearningRate * inputs'[j]
                       ELSE 0
    IN  /\ inputs'[1] = 1
        /\ IF p = expected
           THEN returned /\ inputWeights' = W
           ELSE /\ ~returned
                /\ Len(inputWeights') = Len(W)
                /\ \A c \in 0..(Len(W) - 1) :
                       /\ Len(inputWeights'[c + 1]) = Len(W[c + 1])
                       /\ \A j \in 1..Len(W[c + 1]) :
                              inputWeights'[c + 1][j] = W[c + 1][j] + delta(c, j)

\* C8: every train call on MultiPerceptron that does not throw, made directly
\* or by trainSet, changes the weights as described above.
C8_TrainUpdatesExpectedAndPredicted ==
    [][/\ (kind = "MultiPerceptron" /\ Called("train") /\ ~result'.thrown) =>
              TrainUpdatesTwoRows(inputWeights, result'.cls, result'.bool)
       /\ (kind = "MultiPerceptron" /\ TrainSetCallsTrain /\ pc' = "for") =>
              /\ Len(passResults') = Len(passResults) + 1
              /\ TrainUpdatesTwoRows(inputWeights, call.expectedSet[i + 1],
                                     passResults'[Len(passResults')])]_vars

\* a direct train call has failed on weights that were not all zero, with
\* three classes or more, and changed exactly two rows
C8_Witness ==
    /\ kind = "MultiPerceptron"
    /\ pc = "idle"
    /\ result.op = "train"
    /\ ~result.thrown
    /\ ~result.bool
    /\ calls > 1
    /\ Len(inputWeights) > 2
    /\ \A c \in 1..Len(inputWeights) : inputWeights[c] # ZeroVector

----------------------------------------------------------------------------
(* C9 *)

\* C9: MultiPerceptron.classify returns the smallest class index whose score
\* is the maximum over all classes, class 0 when every weight is zero, and
\* train returns true exactly when that class is the one expected.
C9_FirstMaximumWins ==
    /\ [](( kind = "MultiPerceptron" /\ pc = "idle" /\ result.op = "classify"
            /\ ~result.thrown) =>
              /\ result.cls = FirstMaximum(inputWeights, inputs)
              /\ inputWeights = InitialWeights(kind) => result.cls = 0)
    /\ [][(kind = "MultiPerceptron" /\ Called("train") /\ ~result'.thrown) =>
              result'.bool = (result'.cls = FirstMaximum(inputWeights, inputs'))]_vars

\* classify has returned a class that a later class ties with, on weights
\* that are not all zero
C9_Witness ==
    /\ kind = "MultiPerceptron"
    /\ pc = "idle"
    /\ result.op = "classify"
    /\ ~result.thrown
    /\ inputWeights # InitialWeights(kind)
    /\ \E d \in (result.cls + 1)..(Len(inputWeights) - 1) :
           Scores(inputWeights, inputs)[d] = Scores(inputWeights, inputs)[result.cls]

====
